---- MODULE Spec2Model ----
(***************************************************************************)
(* Model of skills/cairo-coding/bounded_int_calc.py: a single-shot command *)
(* line tool that computes the bounds of BoundedInt helper impls.          *)
(*                                                                         *)
(* One run of the program is one behaviour: Init is the state after        *)
(* argparse has parsed the command line (operation, the four bounds and    *)
(* the impl name), and one action per branch of main() runs the matching   *)
(* generate_*_impl, its calc_* function, the validate_felt252 calls and    *)
(* the final print.                                                        *)
(*                                                                         *)
(* Python integers are unbounded, so no arithmetic here wraps.  The model  *)
(* checker's integers are 32 bit: FELT252_PRIME stands for the 252 bit     *)
(* prime of the source and is scaled to a 31 bit prime.  The source uses   *)
(* the constant only in the two comparisons of validate_felt252.           *)
(***************************************************************************)
EXTENDS Integers, Sequences, FiniteSets, TLC

VARIABLES operation, a_lo, a_hi, b_lo, b_hi, name,
          pc, result, stdout, stderr, exit_code

vars == <<operation, a_lo, a_hi, b_lo, b_hi, name,
          pc, result, stdout, stderr, exit_code>>

(***************************************************************************)
(* Bounds of the model.                                                    *)
(***************************************************************************)
\* command-line bounds are drawn from -MaxVal .. MaxVal
MaxVal == 3
\* intervals wider than this are not enumerated element by element
MaxWidth == 127

FELT252_PRIME == 1073741827

(***************************************************************************)
(* Python primitives used by the source.                                   *)
(***************************************************************************)
Digits == <<"0", "1", "2", "3", "4", "5", "6", "7", "8", "9">>

RECURSIVE NatStr(_)
NatStr(n) == IF n < 10 THEN Digits[n + 1]
             ELSE NatStr(n \div 10) \o Digits[(n % 10) + 1]

\* str(value) of an int: decimal digits, "-" in front of a negative
str(value) == IF value < 0 THEN "-" \o NatStr(-value) ELSE NatStr(value)

abs(value) == IF value < 0 THEN -value ELSE value

\* x // y of Python: the floor of the exact quotient, y # 0
floordiv(x, y) == IF y > 0 THEN x \div y ELSE (-x) \div (-y)

min(S) == CHOOSE m \in S : \A e \in S : m <= e
max(S) == CHOOSE m \in S : \A e \in S : m >= e

(***************************************************************************)
(* validate_felt252: returns the lines it prints to sys.stderr.            *)
(***************************************************************************)
Warning(value, label) ==
    "WARNING: " \o label \o " = " \o str(value) \o " exceeds felt252 range!"

validate_felt252_gt(value, label) ==
    IF value < 0
    THEN IF abs(value) > FELT252_PRIME THEN <<Warning(value, label)>> ELSE <<>>
    ELSE IF value > FELT252_PRIME THEN <<Warning(value, label)>> ELSE <<>>

validate_felt252(value, label) ==
    IF value < 0
    THEN IF abs(value) >= FELT252_PRIME THEN <<Warning(value, label)>> ELSE <<>>
    ELSE IF value >= FELT252_PRIME THEN <<Warning(value, label)>> ELSE <<>>

format_bound(value) == IF value < 0 THEN str(value) ELSE str(value)

(***************************************************************************)
(* The interval arithmetic.                                                *)
(***************************************************************************)
calc_add_crossed(alo, ahi, blo, bhi) == <<alo + blo, ahi + blo>>

calc_add(alo, ahi, blo, bhi) == <<alo + blo, ahi + bhi>>

calc_sub_same_side(alo, ahi, blo, bhi) == <<alo - blo, ahi - bhi>>

calc_sub(alo, ahi, blo, bhi) == <<alo - bhi, ahi - blo>>

calc_mul_unsigned(alo, ahi, blo, bhi) == <<alo * blo, ahi * bhi>>

calc_mul(alo, ahi, blo, bhi) ==
    LET corners == <<alo * blo, alo * bhi, ahi * blo, ahi * bhi>>
        cs == {corners[i] : i \in 1..4}
    IN  <<min(cs), max(cs)>>

ERR_DIVISOR == "ERROR: Divisor lower bound must be positive!"
ERR_DIVIDEND == "ERROR: Dividend lower bound must be non-negative! Cairo's bounded_int_div_rem does not support negative dividends."
ERR_ZERODIV == "ZeroDivisionError: integer division or modulo by zero"

div_quot_same_side(alo, ahi, blo, bhi) ==
    <<floordiv(alo, blo), floordiv(ahi, bhi)>>

\* lines 85-86; called with bhi # 0 and blo > 0
div_quot(alo, ahi, blo, bhi) == <<floordiv(alo, bhi), floordiv(ahi, blo)>>

div_rem_inclusive(blo, bhi) == <<0, bhi>>

\* lines 87-88
div_rem(blo, bhi) == <<0, bhi - 1>>

div_guard_strict(alo, blo) ==
    IF blo < 0 THEN ERR_DIVISOR
    ELSE IF alo < 0 THEN ERR_DIVIDEND
    ELSE ""

\* lines 77-83: the message of the sys.exit(1) path taken, "" when none is
div_guard(alo, blo) ==
    IF blo <= 0 THEN ERR_DIVISOR
    ELSE IF alo < 0 THEN ERR_DIVIDEND
    ELSE ""

\* status "exit": sys.exit(1) after the message; "raise": the uncaught
\* ZeroDivisionError of a_lo // b_hi (or a_hi // b_lo) with a zero divisor
calc_div(alo, ahi, blo, bhi) ==
    IF div_guard(alo, blo) # ""
    THEN [status |-> "exit", err |-> <<div_guard(alo, blo)>>, intervals |-> <<>>]
    ELSE IF bhi = 0 \/ blo = 0
    THEN [status |-> "raise", err |-> <<ERR_ZERODIV>>, intervals |-> <<>>]
    ELSE [status |-> "ok", err |-> <<>>,
          intervals |-> <<div_quot(alo, ahi, blo, bhi), div_rem(blo, bhi)>>]

(***************************************************************************)
(* The declaration renderers.  Each returns the text it returns in the     *)
(* source (out) and the lines its validate_felt252 calls print (err).      *)
(***************************************************************************)
BoundedInt(lo, hi) ==
    "BoundedInt<" \o format_bound(lo) \o ", " \o format_bound(hi) \o ">"

HelperHead(nm, helper, alo, ahi, blo, bhi) ==
    "impl " \o nm \o " of " \o helper \o "<" \o BoundedInt(alo, ahi) \o ", "
            \o BoundedInt(blo, bhi) \o "> {\n"

ResultImpl(nm, helper, alo, ahi, blo, bhi, r) ==
    [status |-> "ok",
     err |-> validate_felt252(r[1], "Result min")
                \o validate_felt252(r[2], "Result max"),
     out |-> HelperHead(nm, helper, alo, ahi, blo, bhi)
                \o "    type Result = " \o BoundedInt(r[1], r[2]) \o ";\n}"]

generate_add_impl(alo, ahi, blo, bhi, nm) ==
    ResultImpl(nm, "AddHelper", alo, ahi, blo, bhi, calc_add(alo, ahi, blo, bhi))

generate_sub_impl(alo, ahi, blo, bhi, nm) ==
    ResultImpl(nm, "SubHelper", alo, ahi, blo, bhi, calc_sub(alo, ahi, blo, bhi))

generate_mul_impl(alo, ahi, blo, bhi, nm) ==
    ResultImpl(nm, "MulHelper", alo, ahi, blo, bhi, calc_mul(alo, ahi, blo, bhi))

generate_div_impl(alo, ahi, blo, bhi, nm) ==
    LET d == calc_div(alo, ahi, blo, bhi)
        q == d.intervals[1]
        r == d.intervals[2]
    IN  IF d.status # "ok"
        THEN [status |-> d.status, err |-> d.err, out |-> ""]
        ELSE [status |-> "ok",
              err |-> validate_felt252(q[1], "Quotient min")
                         \o validate_felt252(q[2], "Quotient max")
                         \o validate_felt252(r[1], "Remainder min")
                         \o validate_felt252(r[2], "Remainder max"),
              out |-> HelperHead(nm, "DivRemHelper", alo, ahi, blo, bhi)
                         \o "    type DivT = " \o BoundedInt(q[1], q[2]) \o ";\n"
                         \o "    type RemT = " \o BoundedInt(r[1], r[2]) \o ";\n}"]

(***************************************************************************)
(* The command lines of the model.                                         *)
(***************************************************************************)
Operations == {"add", "sub", "mul", "div"}

DefaultName(op) ==
    CASE op = "add" -> "AddImpl"
      [] op = "sub" -> "SubImpl"
      [] op = "mul" -> "MulImpl"
      [] op = "div" -> "DivRemImpl"

Names(op) == {DefaultName(op), "Zq12289MulHelper"}

Vals == (-MaxVal)..MaxVal

SmallArgs == {<<op, w, x, y, z>> : op \in Operations, w \in Vals, x \in Vals,
                                    y \in Vals, z \in Vals}

P == FELT252_PRIME

\* the examples of the usage text, and bounds around the felt252 prime
WideArgs ==
    { <<"add", 0, 12288, 0, 12288>>,
      <<"sub", 0, 12288, 0, 12288>>,
      <<"mul", 0, 12288, 0, 12288>>,
      <<"div", 128, 255, 3, 8>>,
      <<"add", P - 2, P - 1, 0, 1>>,
      <<"add", -(P - 1), -(P - 2), -1, 0>>,
      <<"add", P - 1, P, 1, 2>>,
      <<"sub", -(P - 1), 0, 0, 1>>,
      <<"sub", P - 1, P - 1, -1, 0>>,
      <<"mul", -1, 1, P - 1, P>>,
      <<"mul", 1, 1, P - 1, P + 1>>,
      <<"div", P, P + 1, 1, P + 1>>,
      <<"div", P - 1, P, 1, 1>> }

Args == SmallArgs \cup WideArgs

(***************************************************************************)
(* The state machine.                                                      *)
(***************************************************************************)
Init ==
    /\ \E t \in Args :
          /\ operation = t[1]
          /\ a_lo = t[2]
          /\ a_hi = t[3]
          /\ b_lo = t[4]
          /\ b_hi = t[5]
    /\ name \in Names(operation)
    /\ pc = "main"
    /\ result = <<>>
    /\ stdout = <<>>
    /\ stderr = <<>>
    /\ exit_code = 0

\* print(generate_*_impl(...)) and the end of the process
Finish(g, intervals) ==
    /\ pc' = "exit"
    /\ stderr' = g.err
    /\ stdout' = IF g.status = "ok" THEN <<g.out>> ELSE <<>>
    /\ result' = IF g.status = "ok" THEN intervals ELSE <<>>
    /\ exit_code' = IF g.status = "ok" THEN 0 ELSE 1
    /\ UNCHANGED <<operation, a_lo, a_hi, b_lo, b_hi, name>>

MainAdd ==
    /\ pc = "main"
    /\ operation = "add"
    /\ Finish(generate_add_impl(a_lo, a_hi, b_lo, b_hi, name),
              <<calc_add(a_lo, a_hi, b_lo, b_hi)>>)

MainSub ==
    /\ pc = "main"
    /\ operation = "sub"
    /\ Finish(generate_sub_impl(a_lo, a_hi, b_lo, b_hi, name),
              <<calc_sub(a_lo, a_hi, b_lo, b_hi)>>)

MainMul ==
    /\ pc = "main"
    /\ operation = "mul"
    /\ Finish(generate_mul_impl(a_lo, a_hi, b_lo, b_hi, name),
              <<calc_mul(a_lo, a_hi, b_lo, b_hi)>>)

MainDiv ==
    /\ pc = "main"
    /\ operation = "div"
    /\ Finish(generate_div_impl(a_lo, a_hi, b_lo, b_hi, name),
              calc_div(a_lo, a_hi, b_lo, b_hi).intervals)

Next == MainAdd \/ MainSub \/ MainMul \/ MainDiv

Spec == Init /\ [][Next]_vars

TypeOK ==
    /\ operation \in Operations
    /\ pc \in {"main", "exit"}
    /\ exit_code \in {0, 1}
    /\ Len(stdout) <= 1

(***************************************************************************)
(* Vocabulary of the properties.                                           *)
(***************************************************************************)
Exited == pc = "exit"
Declared == Exited /\ exit_code = 0 /\ Len(stdout) = 1
ValidIntervals == a_lo <= a_hi /\ b_lo <= b_hi
ValidDiv == ValidIntervals /\ a_lo >= 0 /\ b_lo > 0
Enumerable == a_hi - a_lo <= MaxWidth /\ b_hi - b_lo <= MaxWidth
IsArgs(op, w, x, y, z) ==
    operation = op /\ a_lo = w /\ a_hi = x /\ b_lo = y /\ b_hi = z

A == a_lo..a_hi
B == b_lo..b_hi
Sums == {x + y : x \in A, y \in B}
Differences == {x - y : x \in A, y \in B}
Products == {x * y : x \in A, y \in B}
Quotients == {x \div y : x \in A, y \in B}
Remainders == {x % y : x \in A, y \in B}

\* the values x op y the i-th result interval of the operation ranges over
OpValues(i) ==
    CASE operation = "add" -> Sums
      [] operation = "sub" -> Differences
      [] operation = "mul" -> Products
      [] operation = "div" -> IF i = 1 THEN Quotients ELSE Remainders

Contains(iv, S) == \A v \in S : iv[1] <= v /\ v <= iv[2]
Attained(iv, S) == iv[1] \in S /\ iv[2] \in S

\* C1 as stated: every result interval, the remainder interval of div
\* included, encloses all values x op y and has both bounds attained.
C1_AllTight ==
    (Declared /\ ValidIntervals /\ Enumerable) =>
        \A i \in 1..Len(result) :
            Contains(result[i], OpValues(i)) /\ Attained(result[i], OpValues(i))

\* C1 amended: every result interval encloses all values x op y; the bounds
\* of the add, sub and mul intervals and of the quotient interval are
\* attained; the remainder interval (0, b_hi - 1) is only an enclosure.
C1_TightExceptRemainder ==
    (Declared /\ ValidIntervals /\ Enumerable) =>
        \A i \in 1..Len(result) :
            /\ Contains(result[i], OpValues(i))
            /\ (operation = "div" /\ i = 2) \/ Attained(result[i], OpValues(i))

C1_Witness ==
    /\ Declared /\ IsArgs("div", 1, 1, 2, 2)
    /\ result = <<(<<0, 0>>), (<<0, 1>>)>>
    /\ Remainders = {1}

\* C2: calc_add returns exactly (a_lo + b_lo, a_hi + b_hi);
\* Add([0,12288],[0,12288]) = [0,24576].
C2_AddExact ==
    (Exited /\ operation = "add" /\ ValidIntervals) =>
        /\ result = << (<<a_lo + b_lo, a_hi + b_hi>>) >>
        /\ IsArgs("add", 0, 12288, 0, 12288) => result = << (<<0, 24576>>) >>

C2_Witness ==
    Exited /\ IsArgs("add", 0, 12288, 0, 12288) /\ Len(result) = 1
        /\ result[1][2] = 24576

\* C3: calc_sub returns exactly (a_lo - b_hi, a_hi - b_lo), the minimum and
\* the maximum of x - y over x in A, y in B;
\* Sub([0,12288],[0,12288]) = [-12288,12288].
C3_SubExact ==
    (Exited /\ operation = "sub" /\ ValidIntervals) =>
        /\ result = << (<<a_lo - b_hi, a_hi - b_lo>>) >>
        /\ Enumerable => result[1] = <<min(Differences), max(Differences)>>
        /\ IsArgs("sub", 0, 12288, 0, 12288) => result = << (<<-12288, 12288>>) >>

C3_Witness ==
    /\ Exited /\ operation = "sub" /\ ValidIntervals /\ Enumerable
    /\ a_lo < a_hi /\ b_lo < 0 /\ b_hi > 0
    /\ Len(result) = 1 /\ result[1][1] = min(Differences)

\* C4: calc_mul returns (min, max) of the four corner products, which are
\* the minimum and the maximum of x * y over all x in A, y in B, for
\* operands of any sign.
C4_MulCorners ==
    (Exited /\ operation = "mul" /\ ValidIntervals) =>
        LET cs == {a_lo * b_lo, a_lo * b_hi, a_hi * b_lo, a_hi * b_hi}
        IN  /\ result = << (<<min(cs), max(cs)>>) >>
            /\ Enumerable => result[1] = <<min(Products), max(Products)>>

\* mixed signs: neither bound is the product of the two lower or upper bounds
C4_Witness ==
    /\ Exited /\ IsArgs("mul", -2, 3, -3, 1)
    /\ result = << (<<-9, 6>>) >>
    /\ Enumerable /\ min(Products) = -9 /\ max(Products) = 6

FatalExit(msg) ==
    Exited /\ exit_code = 1 /\ stdout = <<>> /\ stderr = <<msg>>

\* C5 as stated: div fails fatally when b_lo <= 0 or a_lo < 0 and produces
\* a declaration for every other input.
C5_FatalIffGuard ==
    (Exited /\ operation = "div") =>
        IF b_lo <= 0 \/ a_lo < 0
        THEN exit_code # 0 /\ stdout = <<>> /\ Len(stderr) = 1
                /\ stderr[1] \in {ERR_DIVISOR, ERR_DIVIDEND}
        ELSE Declared

\* C5 amended: div fails fatally (one error message, exit status 1, no
\* declaration, no warning) when b_lo <= 0 or a_lo < 0; with b_lo > 0,
\* a_lo >= 0 and b_hi = 0 the run ends in an uncaught ZeroDivisionError,
\* exit status 1 and no declaration; every other input, so every input
\* with 0 < b_lo <= b_hi and a_lo >= 0, produces a declaration.
C5_FatalGuardOrZeroDivisor ==
    (Exited /\ operation = "div") =>
        IF b_lo <= 0 THEN FatalExit(ERR_DIVISOR)
        ELSE IF a_lo < 0 THEN FatalExit(ERR_DIVIDEND)
        ELSE IF b_hi = 0 THEN FatalExit(ERR_ZERODIV)
        ELSE Declared /\ Len(result) = 2

C5_Witness ==
    /\ operation = "div" /\ b_lo = 0 /\ a_lo >= 0 /\ b_hi > 0
    /\ FatalExit(ERR_DIVISOR)

\* C6: for valid div inputs the quotient interval is
\* (a_lo // b_hi, a_hi // b_lo), the minimum and the maximum of x // y over
\* x in A, y in B; DivRem([128,255],[3,8]) gives quotient [16,85].
C6_QuotientExact ==
    (Exited /\ operation = "div" /\ ValidDiv) =>
        /\ Len(result) = 2
        /\ result[1] = <<a_lo \div b_hi, a_hi \div b_lo>>
        /\ Enumerable => result[1] = <<min(Quotients), max(Quotients)>>
        /\ IsArgs("div", 128, 255, 3, 8) => result[1] = <<16, 85>>

C6_Witness ==
    /\ Declared /\ IsArgs("div", 128, 255, 3, 8) /\ Enumerable
    /\ result[1] = <<16, 85>> /\ min(Quotients) = 16 /\ max(Quotients) = 85

\* C7: for valid div inputs the remainder interval is (0, b_hi - 1) and
\* every x mod y with x in A, y in B lies in it;
\* DivRem([128,255],[3,8]) gives remainder [0,7].
C7_RemainderInterval ==
    (Exited /\ operation = "div" /\ ValidDiv) =>
        /\ Len(result) = 2
        /\ result[2] = <<0, b_hi - 1>>
        /\ Enumerable => \A v \in Remainders : 0 <= v /\ v <= b_hi - 1
        /\ IsArgs("div", 128, 255, 3, 8) => result[2] = <<0, 7>>

C7_Witness ==
    /\ Declared /\ IsArgs("div", 128, 255, 3, 8) /\ Enumerable
    /\ result[2] = <<0, 7>> /\ 7 \in Remainders

OutOfRange(v) == v < -(FELT252_PRIME - 1) \/ v > FELT252_PRIME - 1

Labels ==
    IF operation = "div"
    THEN <<"Quotient min", "Quotient max", "Remainder min", "Remainder max">>
    ELSE <<"Result min", "Result max">>

\* the computed bounds in the order the source validates them
Bounds == [i \in 1..(2 * Len(result)) |-> result[(i + 1) \div 2][2 - (i % 2)]]

RECURSIVE ExpectedWarnings(_)
ExpectedWarnings(n) ==
    IF n = 0 THEN <<>>
    ELSE ExpectedWarnings(n - 1) \o
         (IF OutOfRange(Bounds[n])
          THEN <<"WARNING: " \o Labels[n] \o " = " \o str(Bounds[n])
                    \o " exceeds felt252 range!">>
          ELSE <<>>)

Pair(iv) == "BoundedInt<" \o str(iv[1]) \o ", " \o str(iv[2]) \o ">"

ExpectedText ==
    "impl " \o name \o " of "
    \o (CASE operation = "add" -> "AddHelper"
          [] operation = "sub" -> "SubHelper"
          [] operation = "mul" -> "MulHelper"
          [] operation = "div" -> "DivRemHelper")
    \o "<" \o Pair(<<a_lo, a_hi>>) \o ", " \o Pair(<<b_lo, b_hi>>) \o "> {\n"
    \o (IF operation = "div"
        THEN "    type DivT = " \o Pair(result[1]) \o ";\n"
             \o "    type RemT = " \o Pair(result[2]) \o ";\n}"
        ELSE "    type Result = " \o Pair(result[1]) \o ";\n}")

\* C8: a warning is printed for a computed bound exactly when the bound is
\* outside [-(modulus-1), modulus-1], and with or without warnings the run
\* prints the declaration with the computed bounds and exits with status 0.
C8_WarningsAdvisory ==
    (Exited /\ result # <<>>) =>
        /\ stderr = ExpectedWarnings(Len(Bounds))
        /\ exit_code = 0
        /\ stdout = <<ExpectedText>>

C8_Witness ==
    /\ Exited /\ IsArgs("add", FELT252_PRIME - 2, FELT252_PRIME - 1, 0, 1)
    /\ Len(stderr) = 1 /\ exit_code = 0 /\ Len(stdout) = 1
    /\ result = << (<<FELT252_PRIME - 2, FELT252_PRIME>>) >>

\* C9: from valid inputs add, sub and mul produce exactly one interval and
\* div exactly two, and every produced interval has lo <= hi.
C9_IntervalsOrdered ==
    (Exited /\ ValidIntervals /\ (operation = "div" => ValidDiv)) =>
        /\ Len(result) = IF operation = "div" THEN 2 ELSE 1
        /\ \A i \in 1..Len(result) : result[i][1] <= result[i][2]

C9_Witness ==
    /\ Exited /\ operation = "div" /\ ValidDiv /\ a_lo < a_hi /\ b_lo < b_hi
    /\ Len(result) = 2 /\ result[1][1] < result[1][2] /\ result[2][1] < result[2][2]

\* C10: calc_add(A, B) equals calc_sub(A, Neg(B)) with Neg(B) = (-b_hi, -b_lo),
\* in both bounds.
C10_AddIsSubNeg ==
    (Exited /\ operation = "add") =>
        result = <<calc_sub(a_lo, a_hi, -b_hi, -b_lo)>>

C10_Witness ==
    /\ Exited /\ operation = "add" /\ ValidIntervals /\ b_lo < 0 /\ b_hi > 0
    /\ a_lo < a_hi /\ result = <<calc_sub(a_lo, a_hi, -b_hi, -b_lo)>>

====
